---- MODULE Spec2Model ----
(***************************************************************************)
(* heliclockter: the system-timezone resolver SystemTZ                     *)
(* (src/src/heliclockter/systemtz.py) over the platform calls              *)
(* time.localtime / time.mktime.  The platform is modelled by the          *)
(* repository's own tzdata-backed emulation of those two calls             *)
(* (emulated_localtime / emulated_mktime in                                *)
(* src/tests/correct_datetime_handling_test.py), over zone tables taken    *)
(* from the POINTS_IN_TIME rows of the same file.                          *)
(* The aware-datetime classes of src/src/heliclockter/__init__.py          *)
(* (datetime_tz, datetime_utc, datetime_local and the datetime_cet of the  *)
(* tests) are modelled over the same zone tables.                          *)
(*                                                                         *)
(* Instants are whole seconds since the epoch plus a microsecond part.     *)
(* Wall-clock fields are records year..second; the conversions between     *)
(* fields and seconds are computed with civil-calendar arithmetic.         *)
(***************************************************************************)
EXTENDS Integers, Sequences, FiniteSets, TLC

\* ------------------------------------------------------------------------
\* Bounds of the model
\* ------------------------------------------------------------------------

\* number of probe steps on each side of a zone's anchor instants
Span == 4

\* microsecond parts carried by the datetimes of the model
Micros == {0, 250000}

\* ------------------------------------------------------------------------
\* Calendar arithmetic: calendar.timegm and the field breakdown done by
\* datetime.fromtimestamp
\* ------------------------------------------------------------------------

Fields(y, mo, d, h, mi, s) ==
    [year |-> y, month |-> mo, day |-> d, hour |-> h, minute |-> mi, second |-> s]

\* days since the epoch of a day given by its shifted year yy (the year
\* starting in March) and its month mp counted from March
days_from_shifted(yy, mp, d) ==
    (yy \div 400) * 146097 + (yy % 400) * 365 + (yy % 400) \div 4 - (yy % 400) \div 100
        + (153 * mp + 2) \div 5 + d - 1 - 719468

days_from_civil(y, m, d) ==
    days_from_shifted(IF m <= 2 THEN y - 1 ELSE y, IF m > 2 THEN m - 3 ELSE m + 9, d)

\* calendar.timegm((year, month, day, hour, minute, second))
timegm(f) ==
    days_from_civil(f.year, f.month, f.day) * 86400
        + f.hour * 3600 + f.minute * 60 + f.second

civil_md(y, m, d, rem) ==
    Fields(IF m <= 2 THEN y + 1 ELSE y, m, d, rem \div 3600, (rem % 3600) \div 60, rem % 60)

civil_mp(y, doy, mp, rem) ==
    civil_md(y, IF mp < 10 THEN mp + 3 ELSE mp - 9, doy - (153 * mp + 2) \div 5 + 1, rem)

civil_yoe(era, doe, yoe, rem) ==
    civil_mp(yoe + era * 400,
             doe - (365 * yoe + yoe \div 4 - yoe \div 100),
             (5 * (doe - (365 * yoe + yoe \div 4 - yoe \div 100)) + 2) \div 153,
             rem)

civil_from_days(z, rem) ==
    civil_yoe(z \div 146097, z % 146097,
              ((z % 146097) - (z % 146097) \div 1460 + (z % 146097) \div 36524
                  - (z % 146097) \div 146096) \div 365,
              rem)

\* the wall-clock fields of a count of seconds taken as UTC
gmfields(secs) == civil_from_days(secs \div 86400 + 719468, secs % 86400)

\* ------------------------------------------------------------------------
\* The operating system's zone rules (tzdata snapshot).  A zone is the
\* sequence of its transition instants and, for each period between them,
\* the total UTC offset, the DST part of it and the abbreviation.
\* dst_known = FALSE is the platform that cannot tell the DST status.
\* timezone / altzone are the values time.timezone / time.altzone that
\* tzset derives for the zone, sampling it from the start of the table's year.
\* anchors are the instants around which the model probes the zone, points
\* further instants it probes (rows of POINTS_IN_TIME).
\* ------------------------------------------------------------------------

TT(off, d, name) == [utcoff |-> off, dst_known |-> TRUE, dst |-> d, abbr |-> name]

ZoneNames ==
    {"America/St_Johns", "Europe/Dublin", "Africa/El_Aaiun", "Australia/Lord_Howe",
     "Antarctica/Troll", "America/Scoresbysund", "Pacific/Kiritimati",
     "Europe/Volgograd", "Legacy/NoDstInfo"}

ZoneTable(key) ==
    CASE key = "America/St_Johns" ->
           [trans |-> <<1678599000, 1699158600>>,
            tt |-> <<TT(-12600, 0, "NST"), TT(-9000, 3600, "NDT"), TT(-12600, 0, "NST")>>,
            anchors |-> {1678599000, 1699158600},
            points |-> {1676477096},
            timezone |-> 12600, altzone |-> 9000]
      [] key = "Europe/Dublin" ->
           [trans |-> <<1679792400, 1698541200>>,
            tt |-> <<TT(0, -3600, "GMT"), TT(3600, 0, "IST"), TT(0, -3600, "GMT")>>,
            anchors |-> {1679792400, 1698541200},
            points |-> {1672531200},
            timezone |-> -3600, altzone |-> 0]
      [] key = "Africa/El_Aaiun" ->
           [trans |-> <<1679191200, 1682215200>>,
            tt |-> <<TT(3600, 0, "+01"), TT(0, -3600, "+00"), TT(3600, 0, "+01")>>,
            anchors |-> {1679191200, 1682215200},
            points |-> {},
            timezone |-> -3600, altzone |-> 0]
      [] key = "Australia/Lord_Howe" ->
           [trans |-> <<1680361200, 1696087800>>,
            tt |-> <<TT(39600, 1800, "+11"), TT(37800, 0, "+1030"), TT(39600, 1800, "+11")>>,
            anchors |-> {1680361200, 1696087800},
            points |-> {},
            timezone |-> -37800, altzone |-> -39600]
      [] key = "Antarctica/Troll" ->
           [trans |-> <<1679792400, 1698541200>>,
            tt |-> <<TT(0, 0, "+00"), TT(7200, 7200, "+02"), TT(0, 0, "+00")>>,
            anchors |-> {1679792400, 1698541200},
            points |-> {},
            timezone |-> 0, altzone |-> -7200]
      [] key = "America/Scoresbysund" ->
           [trans |-> <<1711846800, 1729990800>>,
            tt |-> <<TT(-3600, 0, "-01"), TT(-3600, 3600, "-01"), TT(-7200, 0, "-02")>>,
            anchors |-> {1711846800, 1729990800},
            points |-> {},
            timezone |-> 3600, altzone |-> 3600]
      [] key = "Pacific/Kiritimati" ->
           [trans |-> <<>>,
            tt |-> <<TT(50400, 0, "+14")>>,
            anchors |-> {1689374096},
            points |-> {1672480800, 1704016799},
            timezone |-> -50400, altzone |-> -50400]
      [] key = "Europe/Volgograd" ->
           [trans |-> <<1609020000>>,
            tt |-> <<TT(14400, 0, "+04"), TT(10800, 0, "MSK")>>,
            anchors |-> {1609020000},
            points |-> {},
            timezone |-> -14400, altzone |-> -14400]
      [] key = "Legacy/NoDstInfo" ->
           [trans |-> <<>>,
            tt |-> <<[utcoff |-> 3600, dst_known |-> FALSE, dst |-> 0, abbr |-> "LMT"]>>,
            anchors |-> {1689420896},
            points |-> {},
            timezone |-> -3600, altzone |-> -3600]
      [] key = "UTC" ->
           [trans |-> <<>>,
            tt |-> <<TT(0, 0, "UTC")>>,
            anchors |-> {},
            points |-> {},
            timezone |-> 0, altzone |-> 0]
      [] key = "CET" ->
           [trans |-> <<1679792400, 1698541200>>,
            tt |-> <<TT(3600, 0, "CET"), TT(7200, 3600, "CEST"), TT(3600, 0, "CET")>>,
            anchors |-> {},
            points |-> {},
            timezone |-> -3600, altzone |-> -7200]

\* ------------------------------------------------------------------------
\* tzdata lookups behind the platform calls
\* ------------------------------------------------------------------------

Max(a, b) == IF a >= b THEN a ELSE b

Min(a, b) == IF a <= b THEN a ELSE b

\* the period of zone z that holds the UTC instant secs
ttinfo_of_instant(z, secs) ==
    z.tt[Cardinality({i \in 1..Len(z.trans) : z.trans[i] <= secs}) + 1]

\* the local time at which transition i of zone z counts as passed for a
\* reading with the given fold: under the larger (fold=0) or the smaller
\* (fold=1) of the two offsets around it
trans_wall(z, i, fold) ==
    IF fold = 0
    THEN z.trans[i] + Max(z.tt[i].utcoff, z.tt[i + 1].utcoff)
    ELSE z.trans[i] + Min(z.tt[i].utcoff, z.tt[i + 1].utcoff)

\* the period of zone z chosen for the wall-clock reading with local
\* seconds L and the given fold
ttinfo_of_wall(z, L, fold) ==
    z.tt[Cardinality({i \in 1..Len(z.trans) : trans_wall(z, i, fold) <= L}) + 1]

\* bool(dt.dst()) of a reading resolved to period p
is_dst(p) == p.dst_known /\ p.dst # 0

\* ------------------------------------------------------------------------
\* The platform calls time.localtime and time.mktime
\* ------------------------------------------------------------------------

struct_time(p, f) ==
    [fields    |-> f,
     tm_isdst  |-> IF ~p.dst_known THEN -1 ELSE IF p.dst # 0 THEN 1 ELSE 0,
     tm_gmtoff |-> p.utcoff,
     tm_zone   |-> p.abbr]

localtime_in(p, secs) == struct_time(p, gmfields(secs + p.utcoff))

\* time.localtime(secs) with zone zi active: a struct_time
emulated_localtime(zi, secs) == localtime_in(ttinfo_of_instant(ZoneTable(zi), secs), secs)

\* the choice of time.mktime among the readings of local seconds L as fold 0
\* (period p0) and as fold 1 (period p1); L - p.utcoff is dt.timestamp()
mktime_pick(z, L, isdst, p0, p1) ==
    IF isdst < 0 \/ is_dst(p0) = (isdst > 0) THEN L - p0.utcoff
    ELSE IF is_dst(p1) = (isdst > 0) THEN L - p1.utcoff
    ELSE IF is_dst(p0) THEN L - p0.utcoff + p0.dst
    ELSE IF is_dst(p1) THEN L - p1.utcoff + p1.dst
    ELSE L - p0.utcoff - (z.timezone - z.altzone)

mktime_in(z, L, isdst) ==
    mktime_pick(z, L, isdst, ttinfo_of_wall(z, L, 0), ttinfo_of_wall(z, L, 1))

\* time.mktime((*fields, wday, yday, isdst)) with zone zi active
emulated_mktime(zi, f, isdst) == mktime_in(ZoneTable(zi), timegm(f), isdst)

\* ------------------------------------------------------------------------
\* SystemTZ instances and the datetime values handed to them
\* ------------------------------------------------------------------------

\* the datetime-like classes of the model; "bare_datetime" is a class
\* without a fold attribute
Classes == {"datetime", "bare_datetime"}

ClassHasFold(cls) == cls # "bare_datetime"

TimeDelta(seconds) == [kind |-> "timedelta", seconds |-> seconds]

NoneValue == [kind |-> "None"]

\* the SystemTZ objects that exist: SystemTZ(), SystemTZ(name='Local') and
\* SystemTZ(bare_datetime); name "" stands for no name
Resolvers == {"tz_a", "tz_b", "tz_c"}

\* the attributes SystemTZ.__init__ gives the object
SystemTZ(self) ==
    CASE self = "tz_a" ->
           [_DateTime |-> "datetime", _name |-> "", _zero_delta |-> TimeDelta(0)]
      [] self = "tz_b" ->
           [_DateTime |-> "datetime", _name |-> "Local", _zero_delta |-> TimeDelta(0)]
      [] self = "tz_c" ->
           [_DateTime |-> "bare_datetime", _name |-> "", _zero_delta |-> TimeDelta(0)]

\* what the tzinfo attribute of a datetime can be: one of the resolvers,
\* None (a naive value) or a zone of another kind
TzInfos == Resolvers \cup {"None", "ZoneInfo"}

DateTime(cls, f, us, tz, fold) ==
    [cls |-> cls, fields |-> f, microsecond |-> us, tzinfo |-> tz, fold |-> fold]

AssertionError == [kind |-> "AssertionError"]

\* datetime.timezone(timedelta(seconds=off), name): a zone of one fixed offset
timezone(off, name) == [kind |-> "timezone", offset |-> off, name |-> name]

\* datetime.datetime.now().astimezone().tzinfo with zone zi active and the
\* clock at now: the fixed-offset zone of the local time of that moment
local_timezone(zi, now) ==
    timezone(emulated_localtime(zi, now.secs).tm_gmtoff, emulated_localtime(zi, now.secs).tm_zone)

\* ------------------------------------------------------------------------
\* The state: the zone the operating system is configured with, the
\* module-level object heliclockter.tz_local made when the package was
\* imported, the attributes of the SystemTZ objects, and the call made with
\* what it returned, until the caller has taken the result (the program is
\* single-threaded: one call at a time, and the zone changes between calls).
\* earlier is a history variable: a call the observer has remembered, with
\* the zone it was made under.
\* ------------------------------------------------------------------------

VARIABLES os_tz, tz_local, resolver, call, earlier

vars == <<os_tz, tz_local, resolver, call, earlier>>

\* ------------------------------------------------------------------------
\* SystemTZ methods
\* ------------------------------------------------------------------------

\* faulty variant of tagged_with: the tag is compared with == (SystemTZ.__eq__:
\* same datetime class) instead of by identity
tagged_with_equal(self, dt) ==
    /\ dt.tzinfo \in Resolvers
    /\ resolver[dt.tzinfo]._DateTime = resolver[self]._DateTime

\* the contract of every method that takes a datetime: assert dt.tzinfo is self
tagged_with(self, dt) == dt.tzinfo = self

NotImplemented == [kind |-> "NotImplemented"]

Bool(b) == [kind |-> "bool", value |-> b]

\* faulty variant of __eq__: the display name takes part in the comparison
eq_with_name(self, other) ==
    IF other \notin Resolvers THEN NotImplemented
    ELSE Bool(resolver[other] = resolver[self])

\* SystemTZ.__eq__(other); other is a resolver or an object of another class
__eq__(self, other) ==
    IF other \notin Resolvers THEN NotImplemented
    ELSE Bool(resolver[other]._DateTime = resolver[self]._DateTime)

\* cls.__module__ + '.' + cls.__qualname__ of a datetime-like class
qualified_name(cls) == "__main__." \o cls

\* SystemTZ.__str__()
__str__(self) ==
    [kind |-> "str",
     value |-> IF resolver[self]._name # "" THEN resolver[self]._name ELSE "<" \o "SystemTZ" \o ">"]

\* SystemTZ.__repr__()
__repr__(self) ==
    [kind |-> "str",
     value |-> IF resolver[self]._name # "" THEN resolver[self]._name
               ELSE IF resolver[self]._DateTime = "datetime" THEN "SystemTZ" \o "()"
               ELSE "SystemTZ" \o "(" \o qualified_name(resolver[self]._DateTime) \o ")"]

Made(cls, f, us, self, fold) ==
    [kind |-> "datetime", value |-> DateTime(cls, f, us, self, fold)]

\* faulty variant of fromutc_fold: the offsets are compared the wrong way round
fromutc_fold_flipped(t, secs, secs0) ==
    IF t.tm_isdst < 0 THEN 0
    ELSE IF secs0 >= secs THEN 0
    ELSE IF t.tm_gmtoff > emulated_localtime(os_tz, secs0).tm_gmtoff THEN 1 ELSE 0

\* faulty variant of fromutc_fold: the fold is never set
fromutc_fold_never(t, secs, secs0) == 0

\* the fold fromutc gives the local time t of the instant secs, from the
\* instant secs0 that the same fields have under the opposite DST flag
fromutc_fold(t, secs, secs0) ==
    IF t.tm_isdst < 0 THEN 0
    ELSE IF secs0 >= secs THEN 0
    ELSE IF t.tm_gmtoff < emulated_localtime(os_tz, secs0).tm_gmtoff THEN 1 ELSE 0

\* faulty variant of fromutc_local: the result carries the fields of the UTC
\* instant, not those of the local time
fromutc_local_utc_fields(self, dt, cls, t, secs) ==
    IF ~ClassHasFold(cls) THEN Made(cls, gmfields(secs), dt.microsecond, self, 0)
    ELSE Made(cls, gmfields(secs), dt.microsecond, self,
              fromutc_fold(t, secs,
                           emulated_mktime(os_tz, t.fields, IF t.tm_isdst = 0 THEN 1 ELSE 0)))

\* faulty variant of fromutc_local: the result is always built as a plain
\* datetime.datetime with a fold
fromutc_local_plain_datetime(self, dt, cls, t, secs) ==
    Made("datetime", t.fields, dt.microsecond, self,
         fromutc_fold(t, secs, emulated_mktime(os_tz, t.fields, IF t.tm_isdst = 0 THEN 1 ELSE 0)))

fromutc_local(self, dt, cls, t, secs) ==
    IF ~ClassHasFold(cls) THEN Made(cls, t.fields, dt.microsecond, self, 0)
    ELSE Made(cls, t.fields, dt.microsecond, self,
              fromutc_fold(t, secs,
                           emulated_mktime(os_tz, t.fields, IF t.tm_isdst = 0 THEN 1 ELSE 0)))

\* SystemTZ.fromutc(dt)
fromutc(self, dt) ==
    IF ~tagged_with(self, dt) THEN AssertionError
    ELSE fromutc_local(self, dt, resolver[self]._DateTime,
                       emulated_localtime(os_tz, timegm(dt.fields)), timegm(dt.fields))

Sample(t, secs, us) == [kind |-> "sample", t |-> t, secs |-> secs, us |-> us]

\* faulty variant of mktime_select: the test for equal offsets is missing
mktime_select_unchecked(dt, t, secs, t0, secs0) ==
    IF ~ClassHasFold(dt.cls) THEN Sample(t, secs, dt.microsecond)
    ELSE IF t.tm_isdst < 0 THEN Sample(t, secs, dt.microsecond)
    ELSE IF secs0 = secs THEN Sample(t, secs, dt.microsecond)
    ELSE IF (t.tm_gmtoff > t0.tm_gmtoff) # (dt.fold # 0) THEN Sample(t, secs, dt.microsecond)
    ELSE Sample(t0, secs0, dt.microsecond)

\* faulty variant of mktime_select: the fold bit is read the wrong way round
mktime_select_inverted(dt, t, secs, t0, secs0) ==
    IF ~ClassHasFold(dt.cls) THEN Sample(t, secs, dt.microsecond)
    ELSE IF t.tm_isdst < 0 THEN Sample(t, secs, dt.microsecond)
    ELSE IF secs0 = secs THEN Sample(t, secs, dt.microsecond)
    ELSE IF t.tm_gmtoff = t0.tm_gmtoff THEN Sample(t, secs, dt.microsecond)
    ELSE IF (t.tm_gmtoff > t0.tm_gmtoff) # (dt.fold = 0) THEN Sample(t, secs, dt.microsecond)
    ELSE Sample(t0, secs0, dt.microsecond)

\* faulty variant of mktime_select: a reading that the first guess does not
\* show again (a reading inside a gap) is rejected
mktime_select_strict(dt, t, secs, t0, secs0) ==
    IF t.fields # dt.fields THEN AssertionError
    ELSE IF ~ClassHasFold(dt.cls) THEN Sample(t, secs, dt.microsecond)
    ELSE IF t.tm_isdst < 0 THEN Sample(t, secs, dt.microsecond)
    ELSE IF secs0 = secs THEN Sample(t, secs, dt.microsecond)
    ELSE IF t.tm_gmtoff = t0.tm_gmtoff THEN Sample(t, secs, dt.microsecond)
    ELSE IF (t.tm_gmtoff > t0.tm_gmtoff) # (dt.fold # 0) THEN Sample(t, secs, dt.microsecond)
    ELSE Sample(t0, secs0, dt.microsecond)

\* faulty variant of mktime_select: with fold set the alternative is taken
\* without looking at the offsets
mktime_select_eager(dt, t, secs, t0, secs0) ==
    IF ~ClassHasFold(dt.cls) THEN Sample(t, secs, dt.microsecond)
    ELSE IF t.tm_isdst < 0 THEN Sample(t, secs, dt.microsecond)
    ELSE IF secs0 = secs THEN Sample(t, secs, dt.microsecond)
    ELSE IF dt.fold = 0 THEN Sample(t, secs, dt.microsecond)
    ELSE Sample(t0, secs0, dt.microsecond)

\* the choice of _mktime between the first guess (t, secs) and the
\* alternative (t0, secs0) obtained with the opposite DST flag
mktime_select(dt, t, secs, t0, secs0) ==
    IF ~ClassHasFold(dt.cls) THEN Sample(t, secs, dt.microsecond)
    ELSE IF t.tm_isdst < 0 THEN Sample(t, secs, dt.microsecond)
    ELSE IF secs0 = secs THEN Sample(t, secs, dt.microsecond)
    ELSE IF t.tm_gmtoff = t0.tm_gmtoff THEN Sample(t, secs, dt.microsecond)
    ELSE IF (t.tm_gmtoff > t0.tm_gmtoff) # (dt.fold # 0) THEN Sample(t, secs, dt.microsecond)
    ELSE Sample(t0, secs0, dt.microsecond)

mktime_retry(dt, t, secs, secs0) ==
    mktime_select(dt, t, secs, emulated_localtime(os_tz, secs0), secs0)

mktime_first(dt, t, secs) ==
    mktime_retry(dt, t, secs,
                 emulated_mktime(os_tz, t.fields, IF t.tm_isdst = 0 THEN 1 ELSE 0))

\* SystemTZ._mktime(dt): the selected sample (a struct_time) and its instant
_mktime(self, dt) ==
    IF ~tagged_with(self, dt) THEN AssertionError
    ELSE mktime_first(dt, emulated_localtime(os_tz, emulated_mktime(os_tz, dt.fields, -1)),
                      emulated_mktime(os_tz, dt.fields, -1))

\* faulty variant of live_sample: the local time is derived from the offset
\* and name sampled when the package was imported
live_sample_at_import(now) ==
    Sample([fields    |-> gmfields(now.secs + tz_local.offset),
            tm_isdst  |-> emulated_localtime(os_tz, now.secs).tm_isdst,
            tm_gmtoff |-> tz_local.offset,
            tm_zone   |-> tz_local.name], now.secs, now.us)

\* the live clock sample of Mode A: time.localtime() at the instant now
live_sample(now) == Sample(emulated_localtime(os_tz, now.secs), now.secs, now.us)

\* the sample a query is answered from: the live one when the argument is
\* None (arg is then NoneValue and now the clock reading), else _mktime(dt)
resolved_sample(self, arg, now) ==
    IF arg = NoneValue THEN live_sample(now) ELSE _mktime(self, arg.value)

utcoffset_of(r) == IF r = AssertionError THEN r ELSE TimeDelta(r.t.tm_gmtoff)

\* SystemTZ.utcoffset(dt)
utcoffset(self, arg, now) == utcoffset_of(resolved_sample(self, arg, now))

\* faulty variant of tzname_of: the name is read from the first guess of
\* mktime for the sample's fields, whichever candidate was selected
tzname_of_first_guess(r) ==
    IF r = AssertionError THEN r
    ELSE [kind |-> "str",
          value |-> emulated_localtime(os_tz, emulated_mktime(os_tz, r.t.fields, -1)).tm_zone]

tzname_of(r) == IF r = AssertionError THEN r ELSE [kind |-> "str", value |-> r.t.tm_zone]

\* faulty variant of tzname: a resolver with a display name reports that name
tzname_shows_name(self, arg, now) ==
    IF resolver[self]._name # "" /\ resolved_sample(self, arg, now) # AssertionError
    THEN [kind |-> "str", value |-> resolver[self]._name]
    ELSE tzname_of(resolved_sample(self, arg, now))

\* SystemTZ.tzname(dt)
tzname(self, arg, now) == tzname_of(resolved_sample(self, arg, now))

\* faulty variant of dst_of: an unknown DST status is taken as "not in effect"
dst_of_unknown_as_zero(self, r) ==
    IF r = AssertionError THEN r
    ELSE IF r.t.tm_isdst <= 0 THEN resolver[self]._zero_delta
    ELSE TimeDelta(emulated_mktime(os_tz, r.t.fields, 0) - r.secs)

\* faulty variant of dst_of: no delta is reported when DST is not in effect
dst_of_none_when_off(self, r) ==
    IF r = AssertionError THEN r
    ELSE IF r.t.tm_isdst <= 0 THEN NoneValue
    ELSE TimeDelta(emulated_mktime(os_tz, r.t.fields, 0) - r.secs)

\* faulty variant of dst_of: the delta is reported without its sign
dst_of_unsigned(self, r) ==
    IF r = AssertionError THEN r
    ELSE IF r.t.tm_isdst < 0 THEN NoneValue
    ELSE IF r.t.tm_isdst = 0 THEN resolver[self]._zero_delta
    ELSE TimeDelta(Max(emulated_mktime(os_tz, r.t.fields, 0) - r.secs,
                       r.secs - emulated_mktime(os_tz, r.t.fields, 0)))

\* faulty variant of dst_of: DST in effect is reported as one hour
dst_of_one_hour(self, r) ==
    IF r = AssertionError THEN r
    ELSE IF r.t.tm_isdst < 0 THEN NoneValue
    ELSE IF r.t.tm_isdst = 0 THEN resolver[self]._zero_delta
    ELSE TimeDelta(3600)

\* the DST delta of a sample: none when the status is unknown, zero when DST
\* is not in effect, else the distance to the same fields taken as standard time
dst_of(self, r) ==
    IF r = AssertionError THEN r
    ELSE IF r.t.tm_isdst < 0 THEN NoneValue
    ELSE IF r.t.tm_isdst = 0 THEN resolver[self]._zero_delta
    ELSE TimeDelta(emulated_mktime(os_tz, r.t.fields, 0) - r.secs)

\* SystemTZ.dst(dt)
dst(self, arg, now) == dst_of(self, resolved_sample(self, arg, now))

\* ------------------------------------------------------------------------
\* Inputs of the calls
\* ------------------------------------------------------------------------

\* the instants the model probes a zone at: half-hour steps around its
\* anchors, and its points
Probe(zi) ==
    {a + k * 1800 : a \in ZoneTable(zi).anchors, k \in -Span..Span} \cup ZoneTable(zi).points

\* the UTC offsets zone zi uses
Offsets(zi) == {ZoneTable(zi).tt[i].utcoff : i \in 1..Len(ZoneTable(zi).tt)}

\* wall-clock readings near the anchors of zone zi: every probed instant
\* shown under every offset of the zone (readings inside gaps included)
Readings(zi) == {gmfields(i + off) : i \in Probe(zi), off \in Offsets(zi)}

Folds(cls) == IF ClassHasFold(cls) THEN {0, 1} ELSE {0}

\* datetimes carrying UTC fields, as astimezone hands them to fromutc
UtcArgs(zi) ==
    {DateTime("datetime", gmfields(i), us, tz, 0) :
        i \in Probe(zi), us \in Micros, tz \in TzInfos}

\* datetimes carrying a local wall-clock reading
WallArgs(zi) ==
    UNION {{DateTime(cls, f, us, tz, fold) :
              f \in Readings(zi), us \in Micros, tz \in TzInfos, fold \in Folds(cls)} :
           cls \in Classes}

\* readings of the system clock, time.time()
Clock(zi) == [secs : Probe(zi), us : Micros]

NoClock == [secs |-> 0, us |-> 0]

Some(dt) == [kind |-> "datetime", value |-> dt]

Idle == [op |-> "none", self |-> "None", arg |-> NoneValue, now |-> NoClock,
         result |-> NoneValue]

Called(op, self, arg, now, result) ==
    [op |-> op, self |-> self, arg |-> arg, now |-> now, result |-> result]

\* ------------------------------------------------------------------------
\* The aware-datetime classes of heliclockter/__init__.py.  The tzinfo of a
\* datetime handled here is an object: None, a ZoneInfo, a fixed-offset
\* timezone, a SystemTZ or a tzinfo that reports no offset.
\* ------------------------------------------------------------------------

ZoneInfo(key) == [kind |-> "ZoneInfo", key |-> key]

\* the SystemTZ object "id" as the tzinfo of a datetime
SystemTZObject(id) == [kind |-> "SystemTZ", id |-> id]

\* a tzinfo whose utcoffset() returns None
OffsetlessTz == [kind |-> "tzinfo"]

DatetimeTzError(msg) == [kind |-> "DatetimeTzError", msg |-> msg]

\* datetime_tz and its subclasses: datetime_utc, datetime_local and the
\* datetime_cet of the tests
WrapperClasses == {"datetime_tz", "datetime_utc", "datetime_cet", "datetime_local"}

\* cls.assumed_timezone_for_timezone_naive_input, None for plain datetime
assumed_timezone_for_timezone_naive_input(cls) ==
    CASE cls = "datetime_utc" -> ZoneInfo("UTC")
      [] cls = "datetime_cet" -> ZoneInfo("CET")
      [] cls = "datetime_local" -> tz_local
      [] OTHER -> NoneValue

\* tz.utcoffset(dt) for the tzinfo object tz of dt
tz_utcoffset(tz, dt) ==
    CASE tz.kind = "timezone" -> TimeDelta(tz.offset)
      [] tz.kind = "ZoneInfo" ->
           TimeDelta(ttinfo_of_wall(ZoneTable(tz.key), timegm(dt.fields), dt.fold).utcoff)
      [] tz.kind = "SystemTZ" ->
           utcoffset(tz.id,
                     Some(DateTime("datetime", dt.fields, dt.microsecond, tz.id, dt.fold)),
                     NoClock)
      [] OTHER -> NoneValue

\* tz.tzname(dt) for the tzinfo object tz of dt
tz_tzname(tz, dt) ==
    CASE tz.kind = "timezone" -> [kind |-> "str", value |-> tz.name]
      [] tz.kind = "ZoneInfo" ->
           [kind |-> "str",
            value |-> ttinfo_of_wall(ZoneTable(tz.key), timegm(dt.fields), dt.fold).abbr]
      [] tz.kind = "SystemTZ" ->
           tzname(tz.id,
                  Some(DateTime("datetime", dt.fields, dt.microsecond, tz.id, dt.fold)),
                  NoClock)
      [] OTHER -> NoneValue

\* a == b between two tzinfo objects: timezones compare their offsets,
\* SystemTZ objects by __eq__, everything else by identity
tz_eq(a, b) ==
    IF a.kind = "timezone" /\ b.kind = "timezone" THEN a.offset = b.offset
    ELSE IF a.kind = "SystemTZ" /\ b.kind = "SystemTZ" THEN __eq__(a.id, b.id).value
    ELSE a = b

\* faulty variant of assert_aware_datetime: only the presence of a tzinfo is tested
assert_aware_datetime_tzinfo_only(dt) ==
    IF dt.tzinfo # NoneValue THEN NoneValue ELSE AssertionError

\* datetime_tz.assert_aware_datetime(dt): returns None or raises
assert_aware_datetime(dt) ==
    IF dt.tzinfo # NoneValue /\ tz_utcoffset(dt.tzinfo, dt) # NoneValue
    THEN NoneValue
    ELSE AssertionError

\* faulty variant of new: the tzinfo is not compared with the assumed timezone
new_unrestricted(cls, f, us, tz, fold) ==
    IF cls \notin WrapperClasses THEN Some(DateTime(cls, f, us, tz, fold))
    ELSE IF tz = NoneValue THEN AssertionError
    ELSE IF assert_aware_datetime(DateTime(cls, f, us, tz, fold)) = AssertionError
         THEN AssertionError
    ELSE Some(DateTime(cls, f, us, tz, fold))

\* cls(year, ..., microsecond, tzinfo, fold): datetime.__new__ followed, for
\* the wrapper classes, by the checks of datetime_tz.__init__
new(cls, f, us, tz, fold) ==
    IF cls \notin WrapperClasses THEN Some(DateTime(cls, f, us, tz, fold))
    ELSE IF tz = NoneValue THEN AssertionError
    ELSE IF ~tz_eq(tz, IF assumed_timezone_for_timezone_naive_input(cls) # NoneValue
                       THEN assumed_timezone_for_timezone_naive_input(cls) ELSE tz)
         THEN AssertionError
    ELSE IF assert_aware_datetime(DateTime(cls, f, us, tz, fold)) = AssertionError
         THEN AssertionError
    ELSE Some(DateTime(cls, f, us, tz, fold))

\* the fold ZoneInfo.fromutc gives the instant secs: 1 inside the repeated
\* span that follows a backward transition
zoneinfo_fold(z, secs) ==
    IF \E n \in 1..Len(z.trans) :
          /\ z.trans[n] <= secs
          /\ secs < z.trans[n] + (z.tt[n].utcoff - z.tt[n + 1].utcoff)
    THEN 1 ELSE 0

\* the datetime a SystemTZ made, with the SystemTZ object as its tzinfo
with_object_tag(r) ==
    IF r = AssertionError THEN r ELSE Some([r.value EXCEPT !.tzinfo = SystemTZObject(@)])

\* tz.fromutc(utc) for a datetime of class cls carrying the UTC fields of
\* the instant secs and tagged with tz
tz_fromutc(tz, cls, secs, us) ==
    CASE tz.kind = "timezone" -> new(cls, gmfields(secs + tz.offset), us, tz, 0)
      [] tz.kind = "ZoneInfo" ->
           new(cls, gmfields(secs + ttinfo_of_instant(ZoneTable(tz.key), secs).utcoff), us, tz,
               zoneinfo_fold(ZoneTable(tz.key), secs))
      [] tz.kind = "SystemTZ" ->
           with_object_tag(fromutc(tz.id, DateTime("datetime", gmfields(secs), us, tz.id, 0)))

\* the instant of an aware datetime, in whole seconds: dt - dt.utcoffset()
utc_seconds(dt) == timegm(dt.fields) - tz_utcoffset(dt.tzinfo, dt).seconds

\* the conversion of dt.astimezone: tz.fromutc of dt's UTC fields, carried
\* by an object of dt's class tagged with tz
astimezone_convert(dt, tz) == tz_fromutc(tz, dt.cls, utc_seconds(dt), dt.microsecond)

\* dt.astimezone(tz) for an aware dt and a tzinfo tz: dt itself when tz is
\* its tzinfo, else the conversion
astimezone(dt, tz) ==
    IF tz = dt.tzinfo THEN Some(dt) ELSE astimezone_convert(dt, tz)

\* dt.astimezone(), dt.astimezone(None) and dt.astimezone(tz) as datetime_tz
\* inherits them from datetime: None stands for the fixed-offset zone the
\* system's local time has at dt's instant
datetime_astimezone(dt, tz) ==
    IF tz = NoneValue
    THEN astimezone_convert(dt, local_timezone(os_tz, [secs |-> utc_seconds(dt),
                                                       us |-> dt.microsecond]))
    ELSE astimezone(dt, tz)

\* the plain datetime.datetime with the attributes of dt
plain(dt) == [dt EXCEPT !.cls = "datetime"]

\* faulty variant of enforce_assumed: an instance of a restricted class is
\* converted as it is, not through a plain datetime
enforce_assumed_directly(dt, assumed_tz) == astimezone(dt, assumed_tz)

\* from_datetime, aware input and assumed timezone: the input converted to
\* the assumed timezone
enforce_assumed(dt, assumed_tz) ==
    IF assumed_timezone_for_timezone_naive_input(dt.cls) # NoneValue
    THEN astimezone(plain(dt), assumed_tz)
    ELSE astimezone(dt, assumed_tz)

\* faulty variant of from_datetime_build: the fold is not handed on
from_datetime_build_without_fold(cls, r) ==
    IF r = AssertionError THEN r
    ELSE IF assert_aware_datetime(r.value) = AssertionError THEN AssertionError
    ELSE new(cls, r.value.fields, r.value.microsecond, r.value.tzinfo, 0)

\* from_datetime, last step: cls(...) from the attributes of the datetime r holds
from_datetime_build(cls, r) ==
    IF r = AssertionError THEN r
    ELSE IF assert_aware_datetime(r.value) = AssertionError THEN AssertionError
    ELSE new(cls, r.value.fields, r.value.microsecond, r.value.tzinfo, r.value.fold)

NoAssumedTz == "Cannot create aware datetime from naive if no tz is assumed"

\* faulty variant of from_datetime_of: a naive input of a class without
\* assumed timezone is taken as UTC
from_datetime_of_naive_as_utc(cls, dt, assumed_tz) ==
    IF dt.tzinfo = NoneValue /\ assumed_tz = NoneValue
    THEN from_datetime_build(cls, Some([dt EXCEPT !.tzinfo = ZoneInfo("UTC")]))
    ELSE IF dt.tzinfo = NoneValue
         THEN from_datetime_build(cls, Some([dt EXCEPT !.tzinfo = assumed_tz]))
    ELSE IF assumed_tz # NoneValue THEN from_datetime_build(cls, enforce_assumed(dt, assumed_tz))
    ELSE from_datetime_build(cls, Some(dt))

\* faulty variant of from_datetime_of: a naive input is taken as UTC and
\* converted to the assumed timezone
from_datetime_of_naive_shifted(cls, dt, assumed_tz) ==
    IF dt.tzinfo = NoneValue /\ assumed_tz = NoneValue THEN DatetimeTzError(NoAssumedTz)
    ELSE IF dt.tzinfo = NoneValue
         THEN from_datetime_build(cls, astimezone([dt EXCEPT !.tzinfo = ZoneInfo("UTC")],
                                                  assumed_tz))
    ELSE IF assumed_tz # NoneValue THEN from_datetime_build(cls, enforce_assumed(dt, assumed_tz))
    ELSE from_datetime_build(cls, Some(dt))

\* from_datetime for a class whose assumed timezone is assumed_tz (None for
\* datetime_tz itself)
from_datetime_of(cls, dt, assumed_tz) ==
    IF dt.tzinfo = NoneValue /\ assumed_tz = NoneValue THEN DatetimeTzError(NoAssumedTz)
    ELSE IF dt.tzinfo = NoneValue
         THEN from_datetime_build(cls, Some([dt EXCEPT !.tzinfo = assumed_tz]))
    ELSE IF assumed_tz # NoneValue THEN from_datetime_build(cls, enforce_assumed(dt, assumed_tz))
    ELSE from_datetime_build(cls, Some(dt))

\* cls.from_datetime(dt)
from_datetime(cls, dt) ==
    from_datetime_of(cls, dt, assumed_timezone_for_timezone_naive_input(cls))

\* a date string as its parts: the date and time fields, the microseconds
\* and the UTC offset it ends with, None when it ends with none
DateString(f, us, off) == [fields |-> f, microsecond |-> us, utcoffset |-> off]

\* datetime.datetime.fromisoformat / strptime with a format that matches:
\* a plain datetime, naive when the string carries no offset
parsed(string) ==
    DateTime("datetime", string.fields, string.microsecond,
             IF string.utcoffset = NoneValue THEN NoneValue
             ELSE timezone(string.utcoffset.seconds, ""), 0)

\* cls.fromisoformat(date_string)
fromisoformat(cls, date_string) == from_datetime(cls, parsed(date_string))

\* cls.strptime(date_string, format)
strptime(cls, date_string) == from_datetime(cls, parsed(date_string))

\* cls.fromtimestamp(ts, tz=tz) as inherited from datetime: the UTC fields
\* as an instance of cls tagged with tz, handed to tz.fromutc
fromtimestamp(cls, ts, tz) ==
    IF new(cls, gmfields(ts.secs), ts.us, tz, 0) = AssertionError THEN AssertionError
    ELSE tz_fromutc(tz, cls, ts.secs, ts.us)

\* copy.deepcopy(self): self.__class__(...) from the attributes of self
__deepcopy__(self) == new(self.cls, self.fields, self.microsecond, self.tzinfo, self.fold)

\* datetime.datetime.now(tz): the clock reading as a plain datetime of tz
datetime_now(tz, clock) == tz_fromutc(tz, "datetime", clock.secs, clock.us)

NoTzForNow ==
    "Must override assumed_timezone_for_timezone_naive_input or give a timezone when calling now"

\* cls.from_datetime applied to the datetime r holds
from_datetime_result(cls, r) ==
    IF r = AssertionError THEN r ELSE from_datetime(cls, r.value)

\* faulty variant of now_of: the tz argument is required whatever the class assumes
now_requires_tz(cls, tz, assumed_tz, clock) ==
    IF tz = NoneValue THEN DatetimeTzError(NoTzForNow)
    ELSE from_datetime_result(cls, datetime_now(IF assumed_tz # NoneValue THEN assumed_tz ELSE tz,
                                                clock))

\* now for a class whose assumed timezone is assumed_tz: tz = assumed_tz or tz
now_of(cls, tz, assumed_tz, clock) ==
    IF assumed_tz = NoneValue /\ tz = NoneValue THEN DatetimeTzError(NoTzForNow)
    ELSE from_datetime_result(cls, datetime_now(IF assumed_tz # NoneValue THEN assumed_tz ELSE tz,
                                                clock))

\* cls.now(tz) when the system clock reads clock
datetime_tz_now(cls, tz, clock) ==
    now_of(cls, tz, assumed_timezone_for_timezone_naive_input(cls), clock)

\* timedelta(weeks=, days=, hours=, minutes=, seconds=) in seconds
timedelta(d) ==
    TimeDelta(d.weeks * 604800 + d.days * 86400 + d.hours * 3600 + d.minutes * 60 + d.seconds)

\* r + delta for the outcome r of a call: an error stays the error, a
\* datetime becomes an instance of its class with the fields moved by delta
\* on the wall clock, the same tzinfo and fold 0
timedelta_add(r, seconds) ==
    IF r.kind # "datetime" THEN r
    ELSE new(r.value.cls, gmfields(timegm(r.value.fields) + seconds), r.value.microsecond,
             r.value.tzinfo, 0)

\* cls.future(weeks=, ..., tz=tz)
future(cls, d, tz, clock) == timedelta_add(datetime_tz_now(cls, tz, clock), timedelta(d).seconds)

\* cls.past(weeks=, ..., tz=tz)
past(cls, d, tz, clock) == timedelta_add(datetime_tz_now(cls, tz, clock), 0 - timedelta(d).seconds)

\* wall-clock readings handed to the wrapper classes: the reading of the
\* tests, one inside the repeated hour of CET and one inside its gap
WrapperReadings ==
    {Fields(2021, 1, 1, 10, 0, 0), Fields(2023, 10, 29, 2, 30, 0), Fields(2023, 3, 26, 2, 30, 0)}

\* the tzinfo objects of the datetimes handed to the wrapper classes
InputZones ==
    {NoneValue, ZoneInfo("UTC"), ZoneInfo("CET"), timezone(3600, ""), timezone(-14400, ""),
     tz_local, SystemTZObject("tz_a")}

\* the attributes a wrapper class is asked to construct an instance from
NewArgs(zi) ==
    {DateTime(cls, f, us, tz, fold) :
        cls \in WrapperClasses, f \in WrapperReadings, us \in Micros,
        tz \in InputZones \cup {OffsetlessTz}, fold \in {0, 1}}
    \cup {DateTime("datetime_local", f, 0, tz_local, fold) : f \in Readings(zi), fold \in {0, 1}}

\* the instances of the wrapper classes that exist
Instances(zi) ==
    {new(a.cls, a.fields, a.microsecond, a.tzinfo, a.fold).value :
        a \in {b \in NewArgs(zi) :
                 new(b.cls, b.fields, b.microsecond, b.tzinfo, b.fold) # AssertionError}}

\* the datetimes handed to from_datetime and assert_aware_datetime: plain
\* ones, naive or aware, and instances of the wrapper classes
InputDatetimes(zi) ==
    {DateTime("datetime", f, us, tz, fold) :
        f \in WrapperReadings, us \in Micros, tz \in InputZones, fold \in {0, 1}}
    \cup {a \in Instances(zi) : a.fields \in WrapperReadings}

DateStrings ==
    {DateString(f, 0, off) :
        f \in WrapperReadings, off \in {NoneValue, TimeDelta(0), TimeDelta(3600)}}

Str(x) == [kind |-> "str", value |-> x]

\* the targets astimezone is called with, None for the call without argument
TargetZones ==
    {NoneValue, ZoneInfo("UTC"), ZoneInfo("CET"), timezone(3600, ""), tz_local,
     SystemTZObject("tz_a")}

\* the tz arguments of now, future and past
NowZones == {NoneValue, ZoneInfo("CET"), timezone(-14400, ""), SystemTZObject("tz_a")}

\* the clock readings at which now, future and past are called
NowClock(zi) == {c \in Clock(zi) : c.us = 0 /\ c.secs \in ZoneTable(zi).anchors}

\* the keyword arguments of future and past
Deltas ==
    {[weeks |-> 0, days |-> 0, hours |-> 0, minutes |-> 0, seconds |-> 0],
     [weeks |-> 0, days |-> 2, hours |-> 0, minutes |-> 0, seconds |-> 0],
     [weeks |-> 1, days |-> 0, hours |-> 1, minutes |-> 30, seconds |-> 15]}

\* ------------------------------------------------------------------------
\* Actions
\* ------------------------------------------------------------------------

\* nothing remembered
NoEarlier == [zone |-> "", call |-> Idle, between |-> FALSE]

\* the zones under which the interpreter is started
StartZones == {"Europe/Dublin", "America/St_Johns", "Pacific/Kiritimati"}

\* the interpreter starts under one of the start zones and imports
\* heliclockter, which makes tz_local from the local time of that moment
Init ==
    /\ os_tz \in StartZones
    /\ tz_local \in {local_timezone(os_tz, now) : now \in Clock(os_tz)}
    /\ resolver = [self \in Resolvers |-> SystemTZ(self)]
    /\ call = Idle
    /\ earlier = NoEarlier

\* os.environ['TZ'] = key; time.tzset()
tzset(key) ==
    /\ call = Idle
    /\ key # os_tz
    /\ os_tz' = key
    /\ UNCHANGED <<tz_local, resolver, call, earlier>>

Call_fromutc(self, dt) ==
    /\ call = Idle
    /\ call' = Called("fromutc", self, Some(dt), NoClock, fromutc(self, dt))
    /\ UNCHANGED <<os_tz, tz_local, resolver, earlier>>

Call_mktime(self, dt) ==
    /\ call = Idle
    /\ call' = Called("_mktime", self, Some(dt), NoClock, _mktime(self, dt))
    /\ UNCHANGED <<os_tz, tz_local, resolver, earlier>>

Call_utcoffset(self, arg, now) ==
    /\ call = Idle
    /\ call' = Called("utcoffset", self, arg, now, utcoffset(self, arg, now))
    /\ UNCHANGED <<os_tz, tz_local, resolver, earlier>>

Call_tzname(self, arg, now) ==
    /\ call = Idle
    /\ call' = Called("tzname", self, arg, now, tzname(self, arg, now))
    /\ UNCHANGED <<os_tz, tz_local, resolver, earlier>>

\* faulty variant of Call_dst: dst keeps the delta it computed in the
\* attribute _zero_delta of the resolver
Call_dst_keeping_delta(self, arg, now) ==
    /\ call = Idle
    /\ call' = Called("dst", self, arg, now, dst(self, arg, now))
    /\ resolver' = IF dst(self, arg, now).kind = "timedelta"
                   THEN [resolver EXCEPT ![self]._zero_delta = dst(self, arg, now)]
                   ELSE resolver
    /\ UNCHANGED <<os_tz, tz_local, earlier>>

Call_dst(self, arg, now) ==
    /\ call = Idle
    /\ call' = Called("dst", self, arg, now, dst(self, arg, now))
    /\ UNCHANGED <<os_tz, tz_local, resolver, earlier>>

Object(x) == [kind |-> "object", value |-> x]

Call_str(self) ==
    /\ call = Idle
    /\ call' = Called("__str__", self, NoneValue, NoClock, __str__(self))
    /\ UNCHANGED <<os_tz, tz_local, resolver, earlier>>

Call_repr(self) ==
    /\ call = Idle
    /\ call' = Called("__repr__", self, NoneValue, NoClock, __repr__(self))
    /\ UNCHANGED <<os_tz, tz_local, resolver, earlier>>

\* tz == other, as far as SystemTZ.__eq__ decides it
Call_eq(self, other) ==
    /\ call = Idle
    /\ call' = Called("__eq__", self, Object(other), NoClock, __eq__(self, other))
    /\ UNCHANGED <<os_tz, tz_local, resolver, earlier>>

\* cls(*fields, microsecond=, tzinfo=, fold=) for a wrapper class
Call_new(a) ==
    /\ call = Idle
    /\ call' = Called("new", a.cls, Some(a), NoClock,
                      new(a.cls, a.fields, a.microsecond, a.tzinfo, a.fold))
    /\ UNCHANGED <<os_tz, tz_local, resolver, earlier>>

Call_from_datetime(cls, dt) ==
    /\ call = Idle
    /\ call' = Called("from_datetime", cls, Some(dt), NoClock, from_datetime(cls, dt))
    /\ UNCHANGED <<os_tz, tz_local, resolver, earlier>>

Call_fromisoformat(cls, date_string) ==
    /\ call = Idle
    /\ call' = Called("fromisoformat", cls, Str(date_string), NoClock,
                      fromisoformat(cls, date_string))
    /\ UNCHANGED <<os_tz, tz_local, resolver, earlier>>

Call_strptime(cls, date_string) ==
    /\ call = Idle
    /\ call' = Called("strptime", cls, Str(date_string), NoClock, strptime(cls, date_string))
    /\ UNCHANGED <<os_tz, tz_local, resolver, earlier>>

Call_assert_aware_datetime(dt) ==
    /\ call = Idle
    /\ call' = Called("assert_aware_datetime", "datetime_tz", Some(dt), NoClock,
                      assert_aware_datetime(dt))
    /\ UNCHANGED <<os_tz, tz_local, resolver, earlier>>

Call_fromtimestamp(cls, ts, tz) ==
    /\ call = Idle
    /\ call' = Called("fromtimestamp", cls, Object(tz), ts, fromtimestamp(cls, ts, tz))
    /\ UNCHANGED <<os_tz, tz_local, resolver, earlier>>

Call_now(cls, tz, clock) ==
    /\ call = Idle
    /\ call' = Called("now", cls, Object(tz), clock, datetime_tz_now(cls, tz, clock))
    /\ UNCHANGED <<os_tz, tz_local, resolver, earlier>>

Call_future(cls, d, tz, clock) ==
    /\ call = Idle
    /\ call' = Called("future", cls, Object(<<d, tz>>), clock, future(cls, d, tz, clock))
    /\ UNCHANGED <<os_tz, tz_local, resolver, earlier>>

Call_past(cls, d, tz, clock) ==
    /\ call = Idle
    /\ call' = Called("past", cls, Object(<<d, tz>>), clock, past(cls, d, tz, clock))
    /\ UNCHANGED <<os_tz, tz_local, resolver, earlier>>

Call_astimezone(dt, tz) ==
    /\ call = Idle
    /\ call' = Called("astimezone", dt.cls, Object(<<dt, tz>>), NoClock,
                      datetime_astimezone(dt, tz))
    /\ UNCHANGED <<os_tz, tz_local, resolver, earlier>>

Call_deepcopy(dt) ==
    /\ call = Idle
    /\ call' = Called("__deepcopy__", dt.cls, Some(dt), NoClock, __deepcopy__(dt))
    /\ UNCHANGED <<os_tz, tz_local, resolver, earlier>>

\* the caller takes the returned value (or the raised error)
Return ==
    /\ call # Idle
    /\ call' = Idle
    /\ UNCHANGED <<os_tz, tz_local, resolver, earlier>>

\* the arguments of a query: None with the clock reading of the moment
\* (Mode A), or a datetime carrying a wall-clock reading (Mode B)
QueryArgs(zi) ==
    {<<NoneValue, now>> : now \in Clock(zi)} \cup {<<Some(dt), NoClock>> : dt \in WallArgs(zi)}

Next ==
    \/ \E key \in ZoneNames : tzset(key)
    \/ call = Idle /\ \E self \in Resolvers, dt \in UtcArgs(os_tz) : Call_fromutc(self, dt)
    \/ call = Idle /\ \E self \in Resolvers, dt \in WallArgs(os_tz) : Call_mktime(self, dt)
    \/ call = Idle /\ \E self \in Resolvers, q \in QueryArgs(os_tz) : Call_utcoffset(self, q[1], q[2])
    \/ call = Idle /\ \E self \in Resolvers, q \in QueryArgs(os_tz) : Call_tzname(self, q[1], q[2])
    \/ call = Idle /\ \E self \in Resolvers, q \in QueryArgs(os_tz) : Call_dst(self, q[1], q[2])
    \/ call = Idle /\ \E self \in Resolvers, other \in TzInfos : Call_eq(self, other)
    \/ call = Idle /\ \E self \in Resolvers : Call_str(self)
    \/ call = Idle /\ \E self \in Resolvers : Call_repr(self)
    \/ call = Idle /\ \E a \in NewArgs(os_tz) : Call_new(a)
    \/ call = Idle /\ \E cls \in WrapperClasses, dt \in InputDatetimes(os_tz) :
                        Call_from_datetime(cls, dt)
    \/ call = Idle /\ \E cls \in WrapperClasses, ds \in DateStrings : Call_fromisoformat(cls, ds)
    \/ call = Idle /\ \E cls \in WrapperClasses, ds \in DateStrings : Call_strptime(cls, ds)
    \/ call = Idle /\ \E dt \in InputDatetimes(os_tz) \cup
                              {a \in NewArgs(os_tz) : a.tzinfo = OffsetlessTz} :
                        Call_assert_aware_datetime(dt)
    \/ call = Idle /\ \E cls \in {"datetime_local", "datetime_tz"}, ts \in Clock(os_tz),
                           tz \in {tz_local, SystemTZObject("tz_a")} :
                        Call_fromtimestamp(cls, ts, tz)
    \/ call = Idle /\ \E cls \in WrapperClasses, tz \in NowZones, clock \in NowClock(os_tz) :
                        Call_now(cls, tz, clock)
    \/ call = Idle /\ \E cls \in WrapperClasses, d \in Deltas, tz \in NowZones,
                           clock \in NowClock(os_tz) :
                        Call_future(cls, d, tz, clock)
    \/ call = Idle /\ \E cls \in WrapperClasses, d \in Deltas, tz \in NowZones,
                           clock \in NowClock(os_tz) :
                        Call_past(cls, d, tz, clock)
    \/ call = Idle /\ \E dt \in {a \in Instances(os_tz) : a.fields \in WrapperReadings},
                           tz \in TargetZones :
                        Call_astimezone(dt, tz)
    \/ call = Idle /\ \E dt \in Instances(os_tz) : Call_deepcopy(dt)
    \/ Return

Spec == Init /\ [][Next]_vars

\* ------------------------------------------------------------------------
\* The same program watched by an observer who remembers one earlier call
\* of a resolver and the zone it was made under: a few instants on both
\* sides of each anchor, and any other calls and zone changes in between
\* ------------------------------------------------------------------------

\* half an hour before and after each anchor of zone zi
FewInstants(zi) == {a + k * 1800 : a \in ZoneTable(zi).anchors, k \in {-1, 1}}

FewUtcArgs(zi) == {DateTime("datetime", gmfields(i), 0, "tz_a", 0) : i \in FewInstants(zi)}

\* the local readings of those instants, with either fold
FewWallArgs(zi) ==
    {DateTime("datetime", emulated_localtime(zi, i).fields, 0, "tz_a", fold) :
        i \in FewInstants(zi), fold \in {0, 1}}

FewQueryArgs(zi) ==
    {<<NoneValue, [secs |-> i, us |-> 0]>> : i \in FewInstants(zi)}
    \cup {<<Some(dt), NoClock>> : dt \in FewWallArgs(zi)}

\* the caller takes the result and the observer remembers the call
Remember ==
    /\ call # Idle
    /\ earlier' = [zone |-> os_tz, call |-> call, between |-> FALSE]
    /\ call' = Idle
    /\ UNCHANGED <<os_tz, tz_local, resolver>>

\* the caller takes the result of a call the observer does not remember
Pass ==
    /\ call # Idle
    /\ call' = Idle
    /\ earlier' = IF earlier = NoEarlier THEN earlier ELSE [earlier EXCEPT !.between = TRUE]
    /\ UNCHANGED <<os_tz, tz_local, resolver>>

InitHistory == Init /\ os_tz = "Pacific/Kiritimati"

NextHistory ==
    \/ \E key \in ZoneNames : tzset(key)
    \/ call = Idle /\ \E dt \in FewUtcArgs(os_tz) : Call_fromutc("tz_a", dt)
    \/ call = Idle /\ \E dt \in FewWallArgs(os_tz) : Call_mktime("tz_a", dt)
    \/ call = Idle /\ \E q \in FewQueryArgs(os_tz) : Call_utcoffset("tz_a", q[1], q[2])
    \/ call = Idle /\ \E q \in FewQueryArgs(os_tz) : Call_tzname("tz_a", q[1], q[2])
    \/ call = Idle /\ \E q \in FewQueryArgs(os_tz) : Call_dst("tz_a", q[1], q[2])
    \/ call = Idle /\ \E other \in TzInfos : Call_eq("tz_a", other)
    \/ Remember
    \/ Pass

SpecHistory == InitHistory /\ [][NextHistory]_vars

\* ------------------------------------------------------------------------
\* What the zone rules say, for stating the properties: read off the zone
\* table alone, not through the platform calls
\* ------------------------------------------------------------------------

Zone == ZoneTable(os_tz)

\* the number of the period that holds instant i
period_index(i) == Cardinality({j \in 1..Len(Zone.trans) : Zone.trans[j] <= i}) + 1

rule_at(i) == Zone.tt[period_index(i)]

\* the instants whose local wall-clock reading has local seconds L
InstantsOf(L) ==
    {L - Zone.tt[k].utcoff :
        k \in {n \in 1..Len(Zone.tt) : period_index(L - Zone.tt[n].utcoff) = n}}

\* instant i is the later occurrence of a repeated reading: an earlier
\* instant with a larger offset shows the same reading
SecondOccurrence(i) ==
    \E j \in InstantsOf(i + rule_at(i).utcoff) : j < i /\ rule_at(j).utcoff > rule_at(i).utcoff

\* the reading with local seconds L is shown by two instants of different offsets
Ambiguous(L) ==
    \E i, j \in InstantsOf(L) : i < j /\ rule_at(i).utcoff # rule_at(j).utcoff

Earlier(L) == CHOOSE i \in InstantsOf(L) : \A j \in InstantsOf(L) : i <= j

Later(L) == CHOOSE i \in InstantsOf(L) : \A j \in InstantsOf(L) : i >= j

\* the call in progress was accepted: it returned a value, not the error
Accepted(op) == call.op = op /\ call.result # AssertionError

\* a Mode B call in progress with a datetime of a class that has fold
ModeB(op) ==
    /\ Accepted(op)
    /\ call.arg # NoneValue
    /\ ClassHasFold(call.arg.value.cls)

ArgL == timegm(call.arg.value.fields)

\* ------------------------------------------------------------------------
\* Properties
\* ------------------------------------------------------------------------

\* C1 (as claimed): with the zone fixed, converting an instant with fromutc
\* and resolving the produced fields and fold with _mktime gives the instant
\* back, and the produced fields minus the produced value's utcoffset equal it.
C1_RoundTrip ==
    (Accepted("fromutc") /\ ClassHasFold(call.result.value.cls)) =>
        /\ _mktime(call.self, call.result.value).secs = ArgL
        /\ _mktime(call.self, call.result.value).us = call.arg.value.microsecond
        /\ timegm(call.result.value.fields)
             - utcoffset(call.self, call.result, NoClock).seconds = ArgL

\* C2: fromutc sets fold=1 exactly for the instants that are the later
\* occurrence of a repeated reading (an earlier instant with a larger offset
\* shows the same fields), and fold=0 for every other instant.
C2_FoldIffSecondOccurrence ==
    (Accepted("fromutc") /\ ClassHasFold(call.result.value.cls)) =>
        /\ call.result.value.fold \in {0, 1}
        /\ call.result.value.fold = 1 <=> SecondOccurrence(ArgL)

C2_Witness ==
    /\ Accepted("fromutc")
    /\ ClassHasFold(call.result.value.cls)
    /\ SecondOccurrence(ArgL)
    /\ call.result.value.fold = 1

\* the utcoffset, tzname and dst that belong to instant i under the zone rules
AnswerAt(op, i) ==
    CASE op = "_mktime" -> i
      [] op = "utcoffset" -> TimeDelta(rule_at(i).utcoff)
      [] op = "tzname" -> [kind |-> "str", value |-> rule_at(i).abbr]
      [] op = "dst" -> TimeDelta(rule_at(i).dst)

Answer == IF call.op = "_mktime" THEN call.result.secs ELSE call.result

\* C3 (as claimed): for an ambiguous reading tagged with the resolver, fold=0
\* selects the earlier instant and fold=1 the later one, and utcoffset,
\* tzname and dst are those of the selected instant.
C3_FoldSelectsCandidate ==
    \A op \in {"_mktime", "utcoffset", "tzname", "dst"} :
        (ModeB(op) /\ Ambiguous(ArgL)) =>
            Answer = AnswerAt(op, IF call.arg.value.fold = 0 THEN Earlier(ArgL) ELSE Later(ArgL))

\* C4: a call of fromutc, utcoffset, tzname or dst with a datetime whose
\* tzinfo is not the very resolver called (a naive value, a zone of another
\* kind, another SystemTZ instance even if it compares equal) raises the
\* assertion error and returns nothing else.
C4_ContractViolation ==
    \A op \in {"fromutc", "utcoffset", "tzname", "dst"} :
        (call.op = op /\ call.arg # NoneValue /\ call.arg.value.tzinfo # call.self) =>
            call.result = AssertionError

C4_Witness ==
    /\ call.op = "utcoffset"
    /\ call.self = "tz_a"
    /\ call.arg # NoneValue
    /\ call.arg.value.tzinfo = "tz_b"
    /\ SystemTZ("tz_a")._DateTime = SystemTZ("tz_b")._DateTime
    /\ call.result = AssertionError

\* the sample the call in progress was answered from
Resolved == resolved_sample(call.self, call.arg, call.now)

\* C5: dst returns the explicit none exactly when the platform reports the
\* DST status of the resolved sample as unknown (tm_isdst < 0), for dst(None)
\* and for dst(dt); with a known status it returns a duration.
C5_DstNoneIffUnknown ==
    Accepted("dst") =>
        /\ call.result = NoneValue <=> Resolved.t.tm_isdst < 0
        /\ call.result = NoneValue <=> ~rule_at(Resolved.secs).dst_known
        /\ Resolved.t.tm_isdst >= 0 => call.result.kind = "timedelta"

C5_Witness ==
    /\ Accepted("dst")
    /\ call.arg # NoneValue
    /\ Resolved.t.tm_isdst < 0
    /\ call.result = NoneValue

\* the zone has no DST rules at all
NoDstRules == \A k \in 1..Len(Zone.tt) : Zone.tt[k].dst_known /\ Zone.tt[k].dst = 0

\* C6: when the resolved sample reports DST as not in effect, dst returns
\* exactly the zero duration; in a zone without DST rules dst returns the
\* zero duration for every instant and every reading.
C6_DstZeroWhenNotInEffect ==
    Accepted("dst") =>
        /\ Resolved.t.tm_isdst = 0 => call.result = TimeDelta(0)
        /\ NoDstRules => call.result = TimeDelta(0)

C6_Witness ==
    /\ Accepted("dst")
    /\ os_tz = "Pacific/Kiritimati"
    /\ NoDstRules
    /\ call.arg # NoneValue
    /\ call.result = TimeDelta(0)

\* the reading with local seconds L is shown by two instants
Repeated(L) == Cardinality(InstantsOf(L)) >= 2

\* the argument of the call in progress with the other fold
Flipped == [call.arg EXCEPT !.value.fold = 1 - @]

\* what operation op answers for argument arg
AnswerOf(op, self, arg) ==
    CASE op = "_mktime" -> _mktime(self, arg.value)
      [] op = "utcoffset" -> utcoffset(self, arg, NoClock)
      [] op = "tzname" -> tzname(self, arg, NoClock)
      [] op = "dst" -> dst(self, arg, NoClock)

\* C7: for a reading tagged with the resolver that is not a repeated reading
\* (readings next to a transition and readings inside a gap included), the
\* resolved instant, utcoffset, tzname and dst are the same for fold=0 and fold=1.
C7_FoldIrrelevantOutsideOverlap ==
    \A op \in {"_mktime", "utcoffset", "tzname", "dst"} :
        (ModeB(op) /\ ~Repeated(ArgL)) => call.result = AnswerOf(op, call.self, Flipped)

C7_Witness ==
    /\ ModeB("_mktime")
    /\ InstantsOf(ArgL) = {}
    /\ call.arg.value.fold = 1
    /\ call.result = AnswerOf("_mktime", call.self, Flipped)

\* the transitions at which the clocks go back and the DST flag changes
BackwardDstTransitions ==
    {n \in 1..Len(Zone.trans) :
        /\ Zone.tt[n].utcoff > Zone.tt[n + 1].utcoff
        /\ is_dst(Zone.tt[n]) # is_dst(Zone.tt[n + 1])}

\* by how much the clocks go back at transition n
Shift(n) == Zone.tt[n].utcoff - Zone.tt[n + 1].utcoff

\* what fromutc makes, on the resolver of the call in progress, of instant i
ConvertedAt(i) ==
    fromutc(call.self, DateTime("datetime", gmfields(i), 0, call.self, 0)).value

OffsetOf(dt) == utcoffset(call.self, Some(dt), NoClock).seconds

\* C8 (as claimed): at a backward DST transition, fromutc of the instant of
\* the transition and of the instant one hour later gives fold=0 and fold=1,
\* with the same reading and different offsets.
C8_AtTransitionAndHourLater ==
    \A n \in BackwardDstTransitions :
        (/\ Accepted("fromutc")
         /\ ClassHasFold(call.result.value.cls)
         /\ ArgL = Zone.trans[n]) =>
            /\ call.result.value.fold = 0
            /\ ConvertedAt(Zone.trans[n] + 3600).fold = 1
            /\ ConvertedAt(Zone.trans[n] + 3600).fields = call.result.value.fields
            /\ OffsetOf(ConvertedAt(Zone.trans[n] + 3600)) # OffsetOf(call.result.value)

\* C8 (amended): at a backward DST transition, fromutc of the instant one
\* shift length before the transition and of the instant of the transition
\* gives fold=0 and fold=1, with the same reading and different offsets.
C8_ShiftBeforeAndAtTransition ==
    \A n \in BackwardDstTransitions :
        (/\ Accepted("fromutc")
         /\ ClassHasFold(call.result.value.cls)
         /\ ArgL = Zone.trans[n] - Shift(n)) =>
            /\ call.result.value.fold = 0
            /\ ConvertedAt(Zone.trans[n]).fold = 1
            /\ ConvertedAt(Zone.trans[n]).fields = call.result.value.fields
            /\ OffsetOf(ConvertedAt(Zone.trans[n])) # OffsetOf(call.result.value)

C8_Witness ==
    /\ Accepted("fromutc")
    /\ ClassHasFold(call.result.value.cls)
    /\ \E n \in BackwardDstTransitions :
          /\ ArgL = Zone.trans[n] - Shift(n)
          /\ call.result.value.fold = 0
          /\ ConvertedAt(Zone.trans[n]).fold = 1

\* the call in progress is a Mode B call of op on reading f with the given fold
Asked(op, f, fold) ==
    /\ ModeB(op)
    /\ call.arg.value.fields = f
    /\ call.arg.value.fold = fold

\* the call in progress, if it asks about reading f with the given fold,
\* answers with this instant, offset, name and DST delta
Answers(f, fold, secs, off, name, delta) ==
    /\ Asked("_mktime", f, fold) => call.result.secs = secs
    /\ Asked("utcoffset", f, fold) => call.result = TimeDelta(off)
    /\ Asked("tzname", f, fold) => call.result = [kind |-> "str", value |-> name]
    /\ Asked("dst", f, fold) => call.result = TimeDelta(delta)

\* C9: with America/St_Johns configured, the reading 2023-11-05 01:00:00
\* gives for fold=0 offset -9000 s, DST +3600 s, name NDT, instant 1699155000,
\* and for fold=1 offset -12600 s, DST 0, name NST, instant 1699158600.
C9_StJohnsScenario ==
    os_tz = "America/St_Johns" =>
        /\ Answers(Fields(2023, 11, 5, 1, 0, 0), 0, 1699155000, -9000, "NDT", 3600)
        /\ Answers(Fields(2023, 11, 5, 1, 0, 0), 1, 1699158600, -12600, "NST", 0)

C9_Witness ==
    /\ os_tz = "America/St_Johns"
    /\ Asked("_mktime", Fields(2023, 11, 5, 1, 0, 0), 1)
    /\ call.result.secs = 1699158600
    /\ call.result.t.tm_zone = "NST"

\* C10: with Europe/Dublin configured, the reading 2023-01-01 00:00:00 gives
\* offset 0, DST -3600 s, name GMT; in the overlap of 2023-10-29 01:00,
\* fold=0 gives offset +3600 s with DST 0 (IST) and fold=1 offset 0 with
\* DST -3600 s (GMT).
C10_DublinNegativeDst ==
    os_tz = "Europe/Dublin" =>
        /\ Answers(Fields(2023, 1, 1, 0, 0, 0), 0, 1672531200, 0, "GMT", -3600)
        /\ Answers(Fields(2023, 1, 1, 0, 0, 0), 1, 1672531200, 0, "GMT", -3600)
        /\ Answers(Fields(2023, 10, 29, 1, 0, 0), 0, 1698537600, 3600, "IST", 0)
        /\ Answers(Fields(2023, 10, 29, 1, 0, 0), 1, 1698541200, 0, "GMT", -3600)

C10_Witness ==
    /\ os_tz = "Europe/Dublin"
    /\ Asked("dst", Fields(2023, 10, 29, 1, 0, 0), 1)
    /\ call.result = TimeDelta(-3600)

\* what a query answers when it is answered from period p of the zone
RuleAnswer(op, p) ==
    CASE op = "utcoffset" -> TimeDelta(p.utcoff)
      [] op = "tzname" -> [kind |-> "str", value |-> p.abbr]
      [] op = "dst" -> IF p.dst_known THEN TimeDelta(p.dst) ELSE NoneValue

\* the periods of the configured zone a reading with local seconds L can be
\* answered from: those in which an instant shows it or, inside a gap, any
CandidatePeriods(L) ==
    IF InstantsOf(L) = {} THEN 1..Len(Zone.tt) ELSE {period_index(i) : i \in InstantsOf(L)}

Queries == {"utcoffset", "tzname", "dst"}

\* C11: whatever zones were configured before (at import, at construction,
\* at earlier calls), every fromutc, utcoffset, tzname and dst is answered
\* from the rules of the zone configured at the moment of the call: fromutc
\* shows the instant under that zone's offset, a query without argument
\* answers from that zone's period of the clock instant, a query with a
\* reading from a period of that zone in which the reading occurs.
C11_AnswersFromCurrentZone ==
    /\ Accepted("fromutc") =>
          call.result.value.fields = gmfields(ArgL + rule_at(ArgL).utcoff)
    /\ \A op \in Queries :
          (Accepted(op) /\ call.arg = NoneValue) =>
              call.result = RuleAnswer(op, rule_at(call.now.secs))
    /\ \A op \in Queries :
          (Accepted(op) /\ call.arg # NoneValue) =>
              \E k \in CandidatePeriods(ArgL) : call.result = RuleAnswer(op, Zone.tt[k])

\* the zone was changed since the import (no period of the configured zone
\* has the offset sampled then) and the query follows the configured zone
C11_Witness ==
    /\ Accepted("utcoffset")
    /\ call.arg = NoneValue
    /\ tz_local.offset \notin Offsets(os_tz)
    /\ call.result = TimeDelta(rule_at(call.now.secs).utcoff)

\* C12: tz.__eq__(other) answers true exactly when other is a SystemTZ made
\* with the same result datetime class, whatever the display names, and
\* NotImplemented when other is of another class.
C12_ResolverEquality ==
    call.op = "__eq__" =>
        IF call.arg.value \in Resolvers
        THEN call.result =
               Bool(SystemTZ(call.self)._DateTime = SystemTZ(call.arg.value)._DateTime)
        ELSE call.result = NotImplemented

C12_Witness ==
    /\ call.op = "__eq__"
    /\ call.arg.value \in Resolvers
    /\ SystemTZ(call.self)._name # SystemTZ(call.arg.value)._name
    /\ call.result = Bool(TRUE)

\* instant i lies outside every repeated-hour window: its local reading is
\* shown by no other instant
OutsideFolds(i) == ~Repeated(i + rule_at(i).utcoff)

\* C13: with the zone fixed, an instant outside every repeated-hour window
\* shares its converted (fields, fold) pair with no other such instant, and
\* _mktime resolves that pair back to the instant itself.
C13_BijectionOutsideFolds ==
    (Accepted("fromutc") /\ OutsideFolds(ArgL)) =>
        /\ \A j \in Probe(os_tz) :
              (j # ArgL /\ OutsideFolds(j)) =>
                  \/ ConvertedAt(j).fields # call.result.value.fields
                  \/ ConvertedAt(j).fold # call.result.value.fold
        /\ _mktime(call.self, call.result.value).secs = ArgL

C13_Witness ==
    /\ Accepted("fromutc")
    /\ OutsideFolds(ArgL)
    /\ rule_at(ArgL).utcoff # 0
    /\ \E j \in Probe(os_tz) : j # ArgL /\ OutsideFolds(j)
    /\ _mktime(call.self, call.result.value).secs = ArgL

\* the reading with local seconds L lies in a gap: no instant shows it
InGap(L) == InstantsOf(L) = {}

\* C14: a query about any reading and fold tagged with the resolver returns
\* a value and not an error; for a reading inside a gap utcoffset, tzname and
\* dst return the offset, name and DST delta of a period of the zone, and
\* _mktime an instant that lies in that period.
C14_GapsNeverFail ==
    /\ \A op \in Queries \cup {"_mktime"} :
          (call.op = op /\ call.arg # NoneValue /\ call.arg.value.tzinfo = call.self) =>
              call.result # AssertionError
    /\ (Accepted("utcoffset") /\ call.arg # NoneValue) => call.result.kind = "timedelta"
    /\ (Accepted("tzname") /\ call.arg # NoneValue) => call.result.kind = "str"
    /\ (Accepted("dst") /\ call.arg # NoneValue) => call.result.kind \in {"timedelta", "None"}
    /\ (Accepted("_mktime") /\ InGap(ArgL)) =>
          call.result.t = emulated_localtime(os_tz, call.result.secs)

C14_Witness ==
    /\ Accepted("utcoffset")
    /\ call.arg # NoneValue
    /\ InGap(ArgL)
    /\ call.result.kind = "timedelta"

\* C15 (as claimed): a query without argument answers what the same query
\* answers for the local reading of the clock instant with the fold that
\* fromutc gives it.
C15_ModeAEqualsModeB ==
    \A op \in Queries :
        (/\ Accepted(op)
         /\ call.arg = NoneValue
         /\ ClassHasFold(SystemTZ(call.self)._DateTime)) =>
            call.result = AnswerOf(op, call.self, Some(ConvertedAt(call.now.secs)))

\* the result of the call in progress is an instance of a wrapper class
ReturnedInstance ==
    /\ call.op \in {"new", "from_datetime", "fromisoformat", "strptime", "fromtimestamp"}
    /\ call.result.kind = "datetime"
    /\ call.result.value.cls \in WrapperClasses

\* the instant the zone rules give the reading with local seconds L and the
\* given fold, for a reading that some instant shows
InstantOfReading(L, fold) == IF fold = 0 THEN Earlier(L) ELSE Later(L)

\* C16 (as claimed): with the system zone set to Z, datetime_local(fields,
\* tzinfo=tz_local, fold) is constructed, its tzinfo is a SystemTZ and its
\* timestamp, utcoffset and tzname are those Z gives the reading; and
\* datetime_local.fromtimestamp(ts, tz=tz_local) carries Z's fields and fold.
C16_DatetimeLocalFollowsSystemZone ==
    /\ (/\ call.op = "new"
         /\ call.self = "datetime_local"
         /\ call.arg.value.tzinfo = tz_local
         /\ InstantsOf(ArgL) # {}) =>
            /\ call.result.kind = "datetime"
            /\ call.result.value.tzinfo.kind = "SystemTZ"
            /\ utc_seconds(call.result.value) = InstantOfReading(ArgL, call.arg.value.fold)
            /\ tz_utcoffset(call.result.value.tzinfo, call.result.value) =
                  TimeDelta(rule_at(InstantOfReading(ArgL, call.arg.value.fold)).utcoff)
            /\ tz_tzname(call.result.value.tzinfo, call.result.value) =
                  Str(rule_at(InstantOfReading(ArgL, call.arg.value.fold)).abbr)
    /\ (/\ call.op = "fromtimestamp"
         /\ call.self = "datetime_local"
         /\ call.arg.value = tz_local) =>
            /\ call.result.kind = "datetime"
            /\ call.result.value.tzinfo.kind = "SystemTZ"
            /\ call.result.value.fields =
                  gmfields(call.now.secs + rule_at(call.now.secs).utcoff)
            /\ call.result.value.fold = (IF SecondOccurrence(call.now.secs) THEN 1 ELSE 0)

\* C17: every instance of a wrapper class that a construction returns has
\* a tzinfo that is not None and reports an offset for it; construction
\* without tzinfo raises the assertion error; assert_aware_datetime raises
\* for a naive datetime and passes for a datetime whose zone reports an offset.
C17_AwarenessGuarantee ==
    /\ ReturnedInstance =>
          /\ call.result.value.tzinfo # NoneValue
          /\ tz_utcoffset(call.result.value.tzinfo, call.result.value) # NoneValue
    /\ (call.op = "new" /\ call.arg.value.tzinfo = NoneValue) => call.result = AssertionError
    /\ (call.op = "assert_aware_datetime" /\ call.arg.value.tzinfo = NoneValue) =>
          call.result = AssertionError
    /\ (/\ call.op = "assert_aware_datetime"
         /\ call.arg.value.tzinfo # NoneValue
         /\ tz_utcoffset(call.arg.value.tzinfo, call.arg.value) # NoneValue) =>
            call.result = NoneValue

C17_Witness ==
    /\ ReturnedInstance
    /\ call.op = "new"
    /\ call.self = "datetime_tz"
    /\ call.result.value.tzinfo = SystemTZObject("tz_a")
    /\ tz_utcoffset(call.result.value.tzinfo, call.result.value) # NoneValue

\* the input of the from_datetime, fromisoformat or strptime call in progress is naive
NaiveInput ==
    \/ call.op = "from_datetime" /\ call.arg.value.tzinfo = NoneValue
    \/ call.op \in {"fromisoformat", "strptime"} /\ call.arg.value.utcoffset = NoneValue

\* C18: from_datetime, fromisoformat and strptime on a class without assumed
\* timezone raise DatetimeTzError('Cannot create aware datetime from naive if
\* no tz is assumed') for every naive input and return no instance.
C18_NaiveWithoutAssumedTz ==
    (NaiveInput /\ assumed_timezone_for_timezone_naive_input(call.self) = NoneValue) =>
        call.result =
          DatetimeTzError("Cannot create aware datetime from naive if no tz is assumed")

C18_Witness ==
    /\ call.op = "strptime"
    /\ NaiveInput
    /\ call.self = "datetime_tz"
    /\ call.result.kind = "DatetimeTzError"

\* C19: from_datetime of an aware datetime, plain or an instance of a
\* wrapper class: on a class with assumed timezone Z it returns an instance
\* of the class tagged Z that denotes the instant of the input; on
\* datetime_tz it returns the fields, fold and zone of the input unchanged.
C19_AwareInput ==
    (call.op = "from_datetime" /\ call.arg.value.tzinfo # NoneValue) =>
        /\ call.result.kind = "datetime"
        /\ call.result.value.cls = call.self
        /\ IF assumed_timezone_for_timezone_naive_input(call.self) # NoneValue
           THEN /\ call.result.value.tzinfo =
                     assumed_timezone_for_timezone_naive_input(call.self)
                /\ utc_seconds(call.result.value) = utc_seconds(call.arg.value)
                /\ call.result.value.microsecond = call.arg.value.microsecond
           ELSE call.result.value = [call.arg.value EXCEPT !.cls = call.self]

C19_Witness ==
    /\ call.op = "from_datetime"
    /\ call.self = "datetime_cet"
    /\ call.arg.value.cls = "datetime_utc"
    /\ call.result.kind = "datetime"
    /\ call.result.value.tzinfo = ZoneInfo("CET")
    /\ call.result.value.fields # call.arg.value.fields
    /\ utc_seconds(call.result.value) = utc_seconds(call.arg.value)

\* C20: from_datetime (and strptime / fromisoformat of a string without
\* offset) on a class with assumed timezone Z returns, for a naive input, an
\* instance of the class tagged Z with exactly the input's fields and
\* microseconds.
C20_NaiveInputKeepsFields ==
    (NaiveInput /\ assumed_timezone_for_timezone_naive_input(call.self) # NoneValue) =>
        /\ call.result.kind = "datetime"
        /\ call.result.value.cls = call.self
        /\ call.result.value.tzinfo = assumed_timezone_for_timezone_naive_input(call.self)
        /\ call.result.value.fields = call.arg.value.fields
        /\ call.result.value.microsecond = call.arg.value.microsecond

C20_Witness ==
    /\ call.op = "from_datetime"
    /\ NaiveInput
    /\ call.self = "datetime_cet"
    /\ call.result.kind = "datetime"
    /\ call.result.value.fields = Fields(2021, 1, 1, 10, 0, 0)
    /\ tz_utcoffset(call.result.value.tzinfo, call.result.value) = TimeDelta(3600)

\* ------------------------------------------------------------------------
\* C21.  now, future and past on a class with no assumed timezone, called
\* without a tz, raise DatetimeTzError('Must override
\* assumed_timezone_for_timezone_naive_input or give a timezone when calling
\* now') and create no instance; with a tz given, or on a class with an
\* assumed timezone, they return an instance of the class.
\* ------------------------------------------------------------------------

\* the tz argument of the now, future or past call in progress
TzGiven == IF call.op = "now" THEN call.arg.value ELSE call.arg.value[2]

C21_NowFuturePast ==
    call.op \in {"now", "future", "past"} =>
        IF assumed_timezone_for_timezone_naive_input(call.self) = NoneValue /\ TzGiven = NoneValue
        THEN call.result = DatetimeTzError(NoTzForNow)
        ELSE /\ call.result.kind = "datetime"
             /\ call.result.value.cls = call.self
             /\ call.result.value \in
                  {new(call.self, call.result.value.fields, call.result.value.microsecond,
                       call.result.value.tzinfo, call.result.value.fold).value}

\* datetime_tz.future(...) was called without a tz and has raised the error
C21_Witness ==
    /\ call.op = "future" /\ call.self = "datetime_tz" /\ TzGiven = NoneValue
    /\ call.result = DatetimeTzError(NoTzForNow)

\* ------------------------------------------------------------------------
\* C22.  astimezone on an instance of any datetime_tz subclass (datetime_utc,
\* datetime_cet, datetime_local, datetime_tz) returns an object whose type is
\* exactly datetime_tz, whose tzinfo is the target zone (tz_local when called
\* with no argument or with None) and which denotes the same instant as the
\* original.
\* ------------------------------------------------------------------------

\* the instance astimezone was called on, and its target
Original == call.arg.value[1]

Target == IF call.arg.value[2] = NoneValue THEN tz_local ELSE call.arg.value[2]

C22_AstimezoneReturnsDatetimeTz ==
    call.op = "astimezone" =>
        /\ call.result.kind = "datetime"
        /\ call.result.value.cls = "datetime_tz"
        /\ tz_eq(call.result.value.tzinfo, Target)
        /\ utc_seconds(call.result.value) = utc_seconds(Original)

\* ------------------------------------------------------------------------
\* C23.  The fold bit is preserved by the wrapper: a datetime_tz (or
\* subclass) constructed with fold=f keeps fold=f, so that for an ambiguous
\* reading its offset is the one of occurrence f; from_datetime and deepcopy
\* return an instance with the same fold as their input.
\* ------------------------------------------------------------------------

\* the reading that CET shows twice on 2023-10-29, first at +02:00, then at
\* +01:00
CetRepeatedReading == Fields(2023, 10, 29, 2, 30, 0)

\* construction and deepcopy keep the fold, and the offset follows it
FoldKeptByConstruction ==
    (call.op \in {"new", "__deepcopy__"} /\ call.result.kind = "datetime") =>
        /\ call.result.value.fold = call.arg.value.fold
        /\ (call.result.value.tzinfo = ZoneInfo("CET")
              /\ call.result.value.fields = CetRepeatedReading) =>
               tz_utcoffset(call.result.value.tzinfo, call.result.value) =
                   TimeDelta(IF call.arg.value.fold = 0 THEN 7200 ELSE 3600)

\* the claim as stated: from_datetime returns the fold of its input, always
C23_FoldPreserved ==
    /\ FoldKeptByConstruction
    /\ (call.op = "from_datetime" /\ call.result.kind = "datetime") =>
           call.result.value.fold = call.arg.value.fold

\* from_datetime converts its input: the input is aware, the class assumes
\* a zone and that zone is not the input's tzinfo
Converts ==
    /\ call.arg.value.tzinfo # NoneValue
    /\ assumed_timezone_for_timezone_naive_input(call.self) # NoneValue
    /\ assumed_timezone_for_timezone_naive_input(call.self) # call.arg.value.tzinfo

\* the instant secs is the second occurrence of its reading in the zone of
\* tz: an earlier instant shows the same reading under a larger offset
SecondOccurrenceIn(tz, secs) ==
    /\ tz.kind = "ZoneInfo"
    /\ \E o \in Offsets(tz.key) :
          /\ o > ttinfo_of_instant(ZoneTable(tz.key), secs).utcoff
          /\ ttinfo_of_instant(ZoneTable(tz.key),
                               secs + ttinfo_of_instant(ZoneTable(tz.key), secs).utcoff - o).utcoff
               = o

\* C23, amended: construction and deepcopy keep the fold; from_datetime
\* keeps the fold of its input unless it converts the input to the assumed
\* zone, and then the fold is 1 exactly when the input's instant is the
\* second occurrence of its reading in the assumed zone
C23_FoldPreservedUnlessConverted ==
    /\ FoldKeptByConstruction
    /\ (call.op = "from_datetime" /\ call.result.kind = "datetime") =>
           IF Converts
           THEN call.result.value.fold =
                    IF SecondOccurrenceIn(call.result.value.tzinfo, utc_seconds(call.arg.value))
                    THEN 1 ELSE 0
           ELSE call.result.value.fold = call.arg.value.fold

\* from_datetime has converted 02:30+01:00 with fold 0 to CET, where it is the
\* second 02:30 of 2023-10-29: the datetime_cet returned has fold 1 and the
\* offset +01:00
C23_Witness ==
    /\ call.op = "from_datetime" /\ call.self = "datetime_cet"
    /\ Converts
    /\ call.arg.value.tzinfo = timezone(3600, "")
    /\ call.arg.value.fields = CetRepeatedReading
    /\ call.arg.value.fold = 0
    /\ call.result.kind = "datetime"
    /\ call.result.value.fields = CetRepeatedReading
    /\ call.result.value.fold = 1
    /\ tz_utcoffset(call.result.value.tzinfo, call.result.value) = TimeDelta(3600)

\* ------------------------------------------------------------------------
\* C24.  The value returned by SystemTZ.fromutc is always constructed with
\* the resolver's configured datetime class, is tagged with this same
\* resolver object as tzinfo, and carries the input's microsecond unchanged;
\* when the configured class has no fold attribute the result is built
\* without a fold (which the model records as fold 0).
\* ------------------------------------------------------------------------
C24_FromutcConstruction ==
    Accepted("fromutc") =>
        /\ call.result.kind = "datetime"
        /\ call.result.value.cls = SystemTZ(call.self)._DateTime
        /\ call.result.value.tzinfo = call.self
        /\ call.result.value.microsecond = call.arg.value.microsecond
        /\ ~ClassHasFold(SystemTZ(call.self)._DateTime) => call.result.value.fold = 0

\* the resolver of a class without fold has converted the second occurrence
\* of a reading, with microseconds
C24_Witness ==
    /\ Accepted("fromutc")
    /\ call.self = "tz_c"
    /\ call.result.value.cls = "bare_datetime"
    /\ call.arg.value.microsecond = 250000
    /\ call.result.value.microsecond = 250000
    /\ SecondOccurrence(ArgL)
    /\ call.result.value.fold = 0

\* ------------------------------------------------------------------------
\* C25.  Zone restriction of subclasses: constructing an instance of a
\* datetime_tz subclass that declares an assumed timezone Z (datetime_utc,
\* datetime_local, datetime_cet) with a tzinfo that is not equal to Z fails
\* with an assertion error, so every instance of such a class that exists
\* has tzinfo equal to Z.
\* ------------------------------------------------------------------------

\* the zone a restricted class is restricted to
Restricted(cls) ==
    cls \in WrapperClasses /\ assumed_timezone_for_timezone_naive_input(cls) # NoneValue

RepeatsEarlier ==
    /\ call # Idle
    /\ earlier # NoEarlier
    /\ earlier.zone = os_tz
    /\ earlier.call.op = call.op
    /\ earlier.call.self = call.self
    /\ earlier.call.arg = call.arg
    /\ earlier.call.now = call.now

C26_Stateless ==
    /\ RepeatsEarlier => call.result = earlier.call.result
    /\ resolver = [self \in Resolvers |-> SystemTZ(self)]

\* dst(None) was asked again at the same instant of a DST period, after
\* other calls had returned in between
C26_Witness ==
    /\ RepeatsEarlier
    /\ earlier.between
    /\ call.op = "dst"
    /\ call.arg = NoneValue
    /\ call.result.kind = "timedelta"
    /\ call.result.seconds # 0
    /\ call.result = earlier.call.result

\* ------------------------------------------------------------------------
\* C27.  Mutual consistency of the three queries: for one wall-clock reading
\* and fold tagged with the resolver, with no OS zone change between the
\* calls, utcoffset(dt), tzname(dt) and dst(dt) are all taken from the same
\* selected candidate sample, so the reported name and DST delta always
\* belong to the reported offset (e.g. never offset of the first occurrence
\* with the name of the second): one period of the zone in which the reading
\* occurs has the offset, the name and the DST delta reported.
\* ------------------------------------------------------------------------
C27_QueriesConsistent ==
    \A op \in Queries :
        (Accepted(op) /\ call.arg # NoneValue) =>
            \E p \in CandidatePeriods(ArgL) :
                /\ call.result = RuleAnswer(op, Zone.tt[p])
                /\ \A q \in Queries :
                      AnswerOf(q, call.self, call.arg) = RuleAnswer(q, Zone.tt[p])

\* tzname was asked for the second occurrence of a repeated reading whose two
\* occurrences differ in offset, name and DST delta
C27_Witness ==
    /\ ModeB("tzname")
    /\ Ambiguous(ArgL)
    /\ call.arg.value.fold = 1
    /\ rule_at(Earlier(ArgL)).abbr # rule_at(Later(ArgL)).abbr
    /\ rule_at(Earlier(ArgL)).dst # rule_at(Later(ArgL)).dst
    /\ call.result = [kind |-> "str", value |-> rule_at(Later(ArgL)).abbr]
    /\ utcoffset(call.self, call.arg, NoClock) = TimeDelta(rule_at(Later(ArgL)).utcoff)

\* ------------------------------------------------------------------------
\* C28.  Whenever SystemTZ._mktime answers with the alternative candidate
\* (the sample obtained by re-resolving with the opposite DST flag) instead
\* of the first guess, the wall-clock fields of that alternative sample are
\* equal to the wall-clock fields that were requested; and in every branch
\* the returned sample is the local-time breakdown of the returned instant.
\* ------------------------------------------------------------------------

\* the first guess of _mktime for the requested fields
FirstGuess == emulated_mktime(os_tz, call.arg.value.fields, -1)

C28_AlternativeShowsRequestedFields ==
    Accepted("_mktime") =>
        /\ call.result.secs # FirstGuess => call.result.t.fields = call.arg.value.fields
        /\ call.result.t.fields = gmfields(call.result.secs + rule_at(call.result.secs).utcoff)
        /\ call.result.t.tm_gmtoff = rule_at(call.result.secs).utcoff
        /\ call.result.t.tm_zone = rule_at(call.result.secs).abbr

\* _mktime has answered with the alternative candidate
C28_Witness ==
    /\ Accepted("_mktime")
    /\ call.result.secs # FirstGuess
    /\ call.result.t.fields = call.arg.value.fields

\* ------------------------------------------------------------------------
\* C29.  The display name does not interfere with resolution: two resolvers
\* that differ only in the name given at construction return identical
\* results from fromutc (fields and fold), utcoffset, tzname and dst for
\* corresponding arguments; the name only changes str() and repr(), and a
\* resolver without a name prints as '<SystemTZ>'.
\* ------------------------------------------------------------------------

\* the resolvers that differ from self in the display name only
Twins(self) ==
    IF self \notin Resolvers THEN {}
    ELSE {other \in Resolvers \ {self} :
            /\ SystemTZ(other)._name # SystemTZ(self)._name
            /\ [SystemTZ(other) EXCEPT !._name = ""] = [SystemTZ(self) EXCEPT !._name = ""]}

\* the argument of the call in progress, tagged with the resolver other
ArgFor(other) ==
    IF call.arg = NoneValue THEN call.arg ELSE Some([call.arg.value EXCEPT !.tzinfo = other])

C29_NameDoesNotInterfere ==
    /\ \A other \in Twins(call.self) :
          /\ \A op \in Queries :
                Accepted(op) => call.result = CASE op = "utcoffset" -> utcoffset(other, ArgFor(other), call.now)
                                                [] op = "tzname" -> tzname(other, ArgFor(other), call.now)
                                                [] op = "dst" -> dst(other, ArgFor(other), call.now)
          /\ Accepted("fromutc") =>
                /\ fromutc(other, ArgFor(other).value).kind = "datetime"
                /\ fromutc(other, ArgFor(other).value).value.fields = call.result.value.fields
                /\ fromutc(other, ArgFor(other).value).value.fold = call.result.value.fold
          /\ call.op \in {"__str__", "__repr__"} =>
                call.result # (IF call.op = "__str__" THEN __str__(other) ELSE __repr__(other))
    /\ call.op \in {"__str__", "__repr__"} =>
          IF SystemTZ(call.self)._name # ""
          THEN call.result = [kind |-> "str", value |-> SystemTZ(call.self)._name]
          ELSE call.op = "__str__" => call.result = [kind |-> "str", value |-> "<SystemTZ>"]

\* tzname was asked of the resolver named 'Local' for a reading tagged with
\* it, and has answered the zone's abbreviation as its unnamed twin does
C29_Witness ==
    /\ Accepted("tzname")
    /\ call.self = "tz_b"
    /\ "tz_a" \in Twins(call.self)
    /\ call.arg # NoneValue
    /\ call.result.kind = "str"
    /\ call.result = tzname("tz_a", ArgFor("tz_a"), call.now)
    /\ __str__("tz_b").value = "Local"
    /\ __str__("tz_a").value = "<SystemTZ>"

\* ------------------------------------------------------------------------
\* C30.  Whenever the resolved sample reports that DST is in effect,
\* SystemTZ.dst returns a non-zero duration equal to (the instant obtained by
\* interpreting the same wall-clock fields as standard time) minus (the
\* resolved instant), in whole seconds, so that utcoffset minus dst equals
\* the zone's standard offset at that time.
\* ------------------------------------------------------------------------

\* the standard offset the zone rules give instant i
StandardOffsetAt(i) == rule_at(i).utcoff - rule_at(i).dst

C30_DstDelta ==
    (Accepted("dst") /\ Resolved.t.tm_isdst > 0) =>
        /\ call.result.kind = "timedelta"
        /\ call.result.seconds # 0
        /\ call.result.seconds =
               (timegm(Resolved.t.fields) - StandardOffsetAt(Resolved.secs)) - Resolved.secs
        /\ utcoffset(call.self, call.arg, call.now).seconds - call.result.seconds
               = StandardOffsetAt(Resolved.secs)
        /\ \E p \in 1..Len(Zone.tt) :
              ~is_dst(Zone.tt[p]) /\ Zone.tt[p].utcoff = StandardOffsetAt(Resolved.secs)

\* dst was asked for a summer reading of Lord Howe Island, where DST is half
\* an hour
C30_Witness ==
    /\ Accepted("dst")
    /\ os_tz = "Australia/Lord_Howe"
    /\ call.arg # NoneValue
    /\ Resolved.t.tm_isdst > 0
    /\ call.result = TimeDelta(1800)
    /\ utcoffset(call.self, call.arg, call.now) = TimeDelta(39600)

====
